---- MODULE Spec2Model ----
(***************************************************************************)
(* A model of hangman.py: the GameState dataclass, the Hangman game logic, *)
(* the input validation of UI.get_guess and the session loop               *)
(* main / new_game / play_game.                                            *)
(*                                                                         *)
(* A Python str is modelled as a sequence of characters, a character being *)
(* a one-symbol TLA+ string; the empty str '' is << >>.  A set of letters  *)
(* (set[str]) is a set of such sequences, each of length 1 when it comes   *)
(* from set(word).                                                         *)
(***************************************************************************)
EXTENDS Integers, Sequences, FiniteSets, TLC

VARIABLES
    pc,                 \* position of the process in main / new_game / play_game
    player_name,        \* GameState.player_name
    word,               \* GameState.word
    current_guess,      \* GameState.current_guess
    guesses,            \* GameState.guesses
    remaining_letters,  \* GameState.remaining_letters
    puzzle,             \* GameState.puzzle
    image_idx,          \* GameState.image_idx
    out,                \* the last message printed on the terminal (its kind and data)
    verdict,            \* the "is correct" / "is wrong" line on the screen, "" if none
    player_wins,        \* new_game's local player_wins: "none" until play_game returns
    exit_code,          \* the process's exit status, Running while it runs
    welcomed            \* history: UI.do_welcome has run in this process

vars == << pc, player_name, word, current_guess, guesses, remaining_letters,
           puzzle, image_idx, out, verdict, player_wins, exit_code, welcomed >>

gameVars == << word, current_guess, guesses, remaining_letters, puzzle, image_idx >>

-----------------------------------------------------------------------------
(* Bounds of the model *)

\* a padded input line carries at most MaxPad blanks on either side
MaxPad == 1
\* the name typed at the welcome prompt has at most MaxNameLen characters
MaxNameLen == 1
\* calls of update_game_state outside the round loop stop once image_idx
\* has reached MaxIdx
MaxIdx == 11

-----------------------------------------------------------------------------
(* str methods *)

\* the cased characters of the model, lower case and upper case aligned
LowerLetters == << "a", "c", "t", "k", "o", "l", "x", "y" >>
UpperLetters == << "A", "C", "T", "K", "O", "L", "X", "Y" >>

\* "sz" stands for U+00DF, whose upper case is the two characters SS
Upper(c) ==
    IF \E i \in DOMAIN LowerLetters : LowerLetters[i] = c
    THEN << UpperLetters[CHOOSE i \in DOMAIN LowerLetters : LowerLetters[i] = c] >>
    ELSE IF c = "sz" THEN << "S", "S" >> ELSE << c >>

Lower(c) ==
    IF \E i \in DOMAIN UpperLetters : UpperLetters[i] = c
    THEN LowerLetters[CHOOSE i \in DOMAIN UpperLetters : UpperLetters[i] = c]
    ELSE c

IsCased(c) ==
    \/ \E i \in DOMAIN LowerLetters : LowerLetters[i] = c
    \/ \E i \in DOMAIN UpperLetters : UpperLetters[i] = c
    \/ c = "sz"

IsSpace(c) == c \in { " ", "\t" }

RECURSIVE StrUpper(_)
StrUpper(s) == IF s = << >> THEN << >> ELSE Upper(Head(s)) \o StrUpper(Tail(s))

RECURSIVE LStrip(_)
LStrip(s) == IF s # << >> /\ IsSpace(Head(s)) THEN LStrip(Tail(s)) ELSE s

RECURSIVE RStrip(_)
RStrip(s) ==
    IF s # << >> /\ IsSpace(s[Len(s)]) THEN RStrip(SubSeq(s, 1, Len(s) - 1)) ELSE s

Strip(s) == RStrip(LStrip(s))

\* the title case of a character: U+00DF gives "Ss"
Titlecase(c) == IF c = "sz" THEN << "S", "s" >> ELSE Upper(c)

\* str.title(): a cased character is title-cased when it starts a word
\* and lower-cased when it follows a cased character
RECURSIVE TitleFrom(_, _)
TitleFrom(s, prevCased) ==
    IF s = << >> THEN << >>
    ELSE IF IsCased(Head(s))
         THEN (IF prevCased THEN << Lower(Head(s)) >> ELSE Titlecase(Head(s)))
              \o TitleFrom(Tail(s), TRUE)
         ELSE << Head(s) >> \o TitleFrom(Tail(s), FALSE)

Title(s) == TitleFrom(s, FALSE)

\* Python's `sub in s` for two str
IsSubstring(sub, s) ==
    \E i \in 0 .. Len(s) :
        /\ i + Len(sub) <= Len(s)
        /\ SubSeq(s, i + 1, i + Len(sub)) = sub

\* set(s) for a str s
SetOfStr(s) == { << s[i] >> : i \in DOMAIN s }

\* s.split() for the whitespace-separated word tables of the model
RECURSIVE SplitFrom(_, _, _)
SplitFrom(s, cur, acc) ==
    IF s = << >> THEN (IF cur = << >> THEN acc ELSE Append(acc, cur))
    ELSE IF IsSpace(Head(s))
         THEN SplitFrom(Tail(s), << >>, IF cur = << >> THEN acc ELSE Append(acc, cur))
         ELSE SplitFrom(Tail(s), Append(cur, Head(s)), acc)

Split(s) == SplitFrom(s, << >>, << >>)

-----------------------------------------------------------------------------
(* images, the word list *)

\* len(images())
NumImages == 10

maxStages == NumImages - 1

\* animal_words: two of its entries, a word of distinct letters and a word
\* with a repeated letter, in the case and white space the source writes
animal_words == << " ", "C", "a", "t", " ", "K", "o", "a", "l", "a", " " >>

word_list_dict == [ c \in { << "a", "n", "i", "m", "a", "l", "s" >> } |-> animal_words ]

DefaultCategory == << "a", "n", "i", "m", "a", "l", "s" >>

\* category.lower() of get_word_list, on the characters of the model
RECURSIVE StrLower(_)
StrLower(s) == IF s = << >> THEN << >> ELSE << Lower(Head(s)) >> \o StrLower(Tail(s))

\* get_word_list with the table `dict` in the place of word_list_dict: the
\* list of upper-cased words; raises = "ValueError" for an unknown category
get_word_list_in(dict, category) ==
    IF StrLower(category) \in DOMAIN dict
    THEN LET words == Split(dict[StrLower(category)])
         IN  [ raises |-> "none",
               value  |-> [ i \in DOMAIN words |-> StrUpper(words[i]) ] ]
    ELSE [ raises |-> "ValueError", value |-> << >> ]

get_word_list(category) == get_word_list_in(word_list_dict, category)

\* the outcomes of get_secret_word over the result `got` of get_word_list():
\* words[randint(0, len(words) - 1)] for every index randint can draw,
\* returned when it is a non-empty str; randint(0, -1) raises ValueError
get_secret_word_from(got) ==
    IF got.raises # "none"
    THEN { [ raises |-> "RuntimeError", value |-> << >> ] }
    ELSE IF Len(got.value) = 0
    THEN { [ raises |-> "ValueError", value |-> << >> ] }
    ELSE { IF Len(got.value[i]) > 0
           THEN [ raises |-> "none", value |-> got.value[i] ]
           ELSE [ raises |-> "RuntimeError", value |-> << >> ]
           : i \in 1 .. Len(got.value) }

get_secret_word == get_secret_word_from(get_word_list(DefaultCategory))

\* word tables a maintainer can leave in get_word_list ("Define your list of
\* words here"): the shipped one, one whose list is empty, and one that has
\* no entry for the default category
WordTables ==
    { word_list_dict,
      [ c \in { DefaultCategory } |-> << " " >> ],
      [ c \in { << "c", "a", "t", "s" >> } |-> animal_words ] }

-----------------------------------------------------------------------------
(* the player's input lines *)

Blanks(n) == [ i \in 1 .. n |-> " " ]

\* what the player types at "Guess a letter: ", before strip().upper():
\* lines of one character, the empty line, lines of several characters,
\* and some of these with up to MaxPad blanks on either side
GuessChars == { "a", "A", "c", "t", "K", "O", "l", "x", "Y",
                "1", "2", "3", "4", "5", "sz" }

GuessBodies ==
    { << >> } \cup { << c >> : c \in GuessChars }
              \cup { << "a", "x" >>, << "a", "a" >>, << "a", " ", "c" >> }

PaddedBodies == { << >>, << "a" >>, << "x" >> }

GuessInputs ==
    GuessBodies \cup
    { Blanks(m) \o b \o Blanks(n) : m, n \in 0 .. MaxPad, b \in PaddedBodies }

\* new_guess = input().strip().upper(), for every line of GuessInputs
Normalised == [ raw \in GuessInputs |-> StrUpper(Strip(raw)) ]

\* what the player types at the name prompt, before title()
NameChars == { "a", "A" }

RECURSIVE StrOver(_, _)
StrOver(chars, n) ==
    IF n = 0 THEN { << >> }
    ELSE LET shorter == StrOver(chars, n - 1)
         IN  shorter \cup { Append(t, c) : t \in shorter, c \in chars }

NameInputs == StrOver(NameChars, MaxNameLen)

\* what the player types at "Play again? [y/n] "
ConfirmInputs == { << "y" >>, << "y", "e", "s" >>, << "n" >>, << "n", "o" >>,
                   << "Y" >>, << >> }

-----------------------------------------------------------------------------
(* GameState *)

PuzzleLetter(character, guessed) == [ character |-> character, guessed |-> guessed ]

Running == -1

NoMessage == [ kind |-> "", text |-> << >> ]

Message(kind, text) == [ kind |-> kind, text |-> text ]

\* GameState.initialise_game_state
initialise_game_state ==
    /\ remaining_letters' = SetOfStr(word')
    /\ puzzle' = [ i \in DOMAIN word' |-> PuzzleLetter(word'[i], FALSE) ]

\* a variant of update_puzzle that marks the first matching position only
update_puzzle_first_only(pz, cg) ==
    [ i \in DOMAIN pz |->
        PuzzleLetter(pz[i].character,
                     \/ pz[i].guessed
                     \/ /\ << pz[i].character >> = cg
                        /\ \A j \in 1 .. (i - 1) : << pz[j].character >> # cg) ]

\* GameState.update_puzzle, on the puzzle pz with current_guess cg
update_puzzle(pz, cg) ==
    [ i \in DOMAIN pz |->
        PuzzleLetter(pz[i].character, pz[i].guessed \/ (<< pz[i].character >> = cg)) ]

\* a variant of update_state_on_guess that leaves the guessed letter in the set
update_state_on_guess_keeps_letter ==
    IF current_guess' \in remaining_letters
    THEN /\ remaining_letters' = remaining_letters
         /\ puzzle' = update_puzzle(puzzle, current_guess')
         /\ image_idx' = image_idx
    ELSE /\ image_idx' = image_idx + 1
         /\ UNCHANGED << remaining_letters, puzzle >>

\* a variant of update_state_on_guess that counts every guess as a wrong one
update_state_on_guess_always_counts ==
    /\ image_idx' = image_idx + 1
    /\ IF current_guess' \in remaining_letters
       THEN /\ remaining_letters' = remaining_letters \ { current_guess' }
            /\ puzzle' = update_puzzle(puzzle, current_guess')
       ELSE UNCHANGED << remaining_letters, puzzle >>

\* GameState.update_state_on_guess: set.remove raises KeyError for a missing element
update_state_on_guess ==
    IF current_guess' \in remaining_letters
    THEN /\ remaining_letters' = remaining_letters \ { current_guess' }
         /\ puzzle' = update_puzzle(puzzle, current_guess')
         /\ image_idx' = image_idx
    ELSE /\ image_idx' = image_idx + 1
         /\ UNCHANGED << remaining_letters, puzzle >>

\* a variant of reset_current_game that forgets image_idx
reset_current_game_keeps_idx ==
    /\ word' = << >>
    /\ current_guess' = << >>
    /\ guesses' = { }
    /\ remaining_letters' = { }
    /\ puzzle' = << >>
    /\ image_idx' = image_idx

\* GameState.reset_current_game
reset_current_game ==
    /\ word' = << >>
    /\ current_guess' = << >>
    /\ guesses' = { }
    /\ remaining_letters' = { }
    /\ puzzle' = << >>
    /\ image_idx' = 0

-----------------------------------------------------------------------------
(* Hangman *)

\* Hangman.initialise_game
initialise_game(puzzle_word) ==
    /\ word' = puzzle_word
    /\ initialise_game_state

\* Hangman.update_game_state
update_game_state(new_guess) ==
    /\ current_guess' = new_guess
    /\ guesses' = guesses \cup { new_guess }
    /\ update_state_on_guess
    /\ UNCHANGED word

\* a variant of is_good_guess that looks the guess up in remaining_letters,
\* from which update_state_on_guess has already removed it
is_good_guess_in_remaining(cg, w) == cg \in remaining_letters'

\* Hangman.is_good_guess, on the state after the update
is_good_guess(cg, w) == IsSubstring(cg, w)

\* variants of player_loses that are off by one
player_loses_late(idx) == idx = NumImages

player_loses_early(idx) == idx = NumImages - 2

\* Hangman.player_loses
player_loses(idx) == idx = NumImages - 1

\* UI.get_image: images()[image_idx]; an index past the tuple raises IndexError
get_image_ok(idx) == idx \in (0 - NumImages) .. (NumImages - 1)

-----------------------------------------------------------------------------
(* main / new_game / play_game *)

Init ==
    /\ pc = "new_game"
    /\ player_name = << >>
    /\ word = << >>
    /\ current_guess = << >>
    /\ guesses = { }
    /\ remaining_letters = { }
    /\ puzzle = << >>
    /\ image_idx = 0
    /\ out = NoMessage
    /\ verdict = ""
    /\ player_wins = "none"
    /\ exit_code = Running
    /\ welcomed = FALSE

\* new_game: the test `state.player_name == ''`
NewGame ==
    /\ pc = "new_game"
    /\ pc' = IF player_name = << >> THEN "do_welcome" ELSE "print_intro"
    /\ player_wins' = "none"
    /\ UNCHANGED << player_name, gameVars, out, verdict, exit_code, welcomed >>

\* state.player_name = ui.do_welcome()
DoWelcome ==
    /\ pc = "do_welcome"
    /\ \E raw \in NameInputs :
         /\ player_name' = Title(raw)
         /\ out' = Message("hello", Title(raw))
    /\ welcomed' = TRUE
    /\ pc' = "print_intro"
    /\ UNCHANGED << gameVars, verdict, player_wins, exit_code >>

\* ui.print_intro(), which ends by clearing the terminal
PrintIntro ==
    /\ pc = "print_intro"
    /\ out' = NoMessage
    /\ verdict' = ""
    /\ pc' = "get_secret_word"
    /\ UNCHANGED << player_name, gameVars, player_wins, exit_code, welcomed >>

\* the rest of new_game once get_secret_word() has one of `outcomes`: the
\* except clause, or game.initialise_game(secret_word) and
\* ui.display_game_start_screen()
StartRoundWith(outcomes) ==
    /\ pc = "get_secret_word"
    /\ \E got \in outcomes :
         IF got.raises = "RuntimeError"
         THEN /\ out' = Message("error", << >>)
              /\ pc' = "exited"
              /\ exit_code' = 0          \* sys.exit() without an argument
              /\ UNCHANGED gameVars
         ELSE IF got.raises # "none"
         THEN /\ out' = Message("traceback", << >>)
              /\ pc' = "crashed"
              /\ exit_code' = 1
              /\ UNCHANGED gameVars
         ELSE /\ initialise_game(got.value)
              /\ out' = NoMessage
              /\ pc' = "play_game"
              /\ UNCHANGED << current_guess, guesses, image_idx, exit_code >>
    /\ UNCHANGED << player_name, verdict, player_wins, welcomed >>

\* get_secret_word(), game.initialise_game(secret_word), ui.display_game_start_screen()
StartRound == StartRoundWith(get_secret_word)

\* play_game up to its first guess prompt: update_screen(clear=False), the
\* while test, and get_guess's print("Guess a letter: ")
PlayGame ==
    /\ pc = "play_game"
    /\ IF get_image_ok(image_idx)
       THEN IF remaining_letters # { }
            THEN /\ pc' = "get_guess"
                 /\ out' = Message("guess a letter", << >>)
                 /\ UNCHANGED << player_wins, exit_code >>
            ELSE /\ pc' = "display_game_result"
                 /\ player_wins' = "true"
                 /\ UNCHANGED << out, exit_code >>
       ELSE /\ pc' = "crashed"
            /\ out' = Message("traceback", << >>)
            /\ exit_code' = 1
            /\ UNCHANGED player_wins
    /\ UNCHANGED << player_name, gameVars, verdict, welcomed >>

\* a variant of get_guess_check without the test for a repeated guess
get_guess_check_no_repeat_test(new_guess, tried) ==
    IF Len(new_guess) # 1 THEN "one letter only" ELSE "return"

\* UI.get_guess: the two tests on new_guess, against game_state.guesses
get_guess_check(new_guess, tried) ==
    IF Len(new_guess) # 1 THEN "one letter only"
    ELSE IF new_guess \in tried THEN "already guessed"
    ELSE "return"

\* one input line at the guess prompt.  UI.get_guess prints why it rejects
\* the line and continues its loop; or it returns the guess, and the body of
\* play_game's loop runs: update_game_state, update_screen, the verdict, the
\* test of player_loses, the while test and, if the round goes on, the
\* next prompt
GetGuess ==
    /\ pc = "get_guess"
    /\ \E raw \in GuessInputs :
         LET new_guess == Normalised[raw]
             check == get_guess_check(new_guess, guesses)
         IN  IF check # "return"
             THEN /\ out' = Message(check, << >>)
                  /\ pc' = "get_guess_continue"
                  /\ UNCHANGED << gameVars, verdict, player_wins, exit_code >>
             ELSE /\ update_game_state(new_guess)
                  /\ IF ~ get_image_ok(image_idx')
                     THEN /\ pc' = "crashed"
                          /\ exit_code' = 1
                          /\ out' = Message("traceback", << >>)
                          /\ UNCHANGED << verdict, player_wins >>
                     ELSE /\ verdict' = IF is_good_guess(current_guess', word')
                                        THEN "is correct" ELSE "is wrong"
                          /\ UNCHANGED exit_code
                          /\ IF player_loses(image_idx')
                             THEN /\ pc' = "display_game_result"
                                  /\ out' = Message(verdict', current_guess')
                                  /\ player_wins' = "false"
                             ELSE IF remaining_letters' # { }
                             THEN /\ pc' = "get_guess"
                                  /\ out' = Message("guess a letter", << >>)
                                  /\ UNCHANGED player_wins
                             ELSE /\ pc' = "display_game_result"
                                  /\ out' = Message(verdict', current_guess')
                                  /\ player_wins' = "true"
    /\ UNCHANGED << player_name, welcomed >>

\* UI.get_guess after a rejected line: `continue`, then the prompt again
GetGuessContinue ==
    /\ pc = "get_guess_continue"
    /\ pc' = "get_guess"
    /\ out' = Message("guess a letter", << >>)
    /\ UNCHANGED << player_name, gameVars, verdict, player_wins, exit_code, welcomed >>

\* a variant of DisplayGameResult in which the state is reset before the
\* result is displayed
DisplayGameResult_reset_first ==
    /\ pc = "display_game_result"
    /\ reset_current_game
    /\ out' = Message(IF player_wins = "true" THEN "you win" ELSE "you loose", word')
    /\ pc' = "reset_current_game"
    /\ UNCHANGED << player_name, verdict, player_wins, exit_code, welcomed >>

\* ui.display_game_result(player_wins, state.word)
DisplayGameResult ==
    /\ pc = "display_game_result"
    /\ out' = Message(IF player_wins = "true" THEN "you win" ELSE "you loose", word)
    /\ pc' = "reset_current_game"
    /\ UNCHANGED << player_name, gameVars, verdict, player_wins, exit_code, welcomed >>

\* state.reset_current_game(), the last statement of new_game
ResetCurrentGame ==
    /\ pc = "reset_current_game"
    /\ reset_current_game
    /\ pc' = "prompt_confirm"
    /\ UNCHANGED << player_name, out, verdict, player_wins, exit_code, welcomed >>

\* Hangman.do_quit
do_quit ==
    /\ out' = Message("bye", player_name)
    /\ pc' = "exited"
    /\ exit_code' = 0

\* main: ui.prompt_confirm("Play again? [y/n] ")
PromptConfirm ==
    /\ pc = "prompt_confirm"
    /\ \E val \in ConfirmInputs :
         IF val \in { << "y" >>, << "y", "e", "s" >> }
         THEN /\ pc' = "new_game"
              /\ out' = Message("play again", << >>)
              /\ UNCHANGED exit_code
         ELSE IF val \in { << "n" >>, << "n", "o" >> }
         THEN do_quit
         ELSE /\ out' = Message("enter y or n", << >>)
              /\ UNCHANGED << pc, exit_code >>
    /\ UNCHANGED << player_name, gameVars, verdict, player_wins, welcomed >>

InNewGame ==
    pc \in { "new_game", "do_welcome", "print_intro", "get_secret_word", "play_game",
             "get_guess", "get_guess_continue", "display_game_result",
             "reset_current_game" }

\* Ctrl + C inside new_game: main's `except KeyboardInterrupt` calls do_quit
InterruptInGame ==
    /\ InNewGame
    /\ do_quit
    /\ UNCHANGED << player_name, gameVars, verdict, player_wins, welcomed >>

\* Ctrl + C at the play-again prompt, which main's try does not cover
InterruptAtConfirm ==
    /\ pc = "prompt_confirm"
    /\ pc' = "crashed"
    /\ out' = Message("traceback", << >>)
    /\ exit_code' = 130
    /\ UNCHANGED << player_name, gameVars, verdict, player_wins, welcomed >>

Next ==
    \/ NewGame
    \/ DoWelcome
    \/ PrintIntro
    \/ StartRound
    \/ PlayGame
    \/ GetGuess
    \/ GetGuessContinue
    \/ DisplayGameResult
    \/ ResetCurrentGame
    \/ PromptConfirm
    \/ InterruptInGame
    \/ InterruptAtConfirm

Spec == Init /\ [][Next]_vars

\* the step of GetGuess in which get_guess returns and the guess is applied
GetGuessAccepted == GetGuess /\ gameVars' # gameVars

\* the session with a player who, asked for a guess again and again,
\* eventually types one that get_guess accepts; the process itself goes on
\* from play_game's entry and from a rejected line without waiting
SpecFair ==
    /\ Init /\ [][Next]_vars
    /\ WF_vars(PlayGame)
    /\ WF_vars(GetGuessContinue)
    /\ SF_vars(GetGuessAccepted)

\* new_game's round start when get_word_list holds any of WordTables
StartRoundConfigured ==
    \E dict \in WordTables :
        StartRoundWith(get_secret_word_from(get_word_list_in(dict, DefaultCategory)))

NextConfigured ==
    \/ NewGame
    \/ DoWelcome
    \/ PrintIntro
    \/ StartRoundConfigured
    \/ PlayGame
    \/ GetGuess
    \/ GetGuessContinue
    \/ DisplayGameResult
    \/ ResetCurrentGame
    \/ PromptConfirm
    \/ InterruptInGame
    \/ InterruptAtConfirm

\* the session over every word table of WordTables
SpecConfigured == Init /\ [][NextConfigured]_vars

-----------------------------------------------------------------------------
(* The methods of Hangman and GameState called directly, in any order, on   *)
(* an object built as Hangman.__init__ builds it; player_name is the field  *)
(* new_game assigns.                                                        *)

\* the words handed to initialise_game
APIWords ==
    LET got == get_word_list(DefaultCategory)
    IN  { got.value[i] : i \in DOMAIN got.value }

\* the strings handed to update_game_state
APIGuesses == { << "A" >>, << "C" >>, << "T" >>, << "K" >>, << "X" >>, << "A", "T" >> }

InAPI == pc \in { "api", "api_initialise_game", "api_update_game_state",
                  "api_reset_current_game" }

InitAPI ==
    /\ pc = "api"
    /\ player_name \in { Title(raw) : raw \in NameInputs }
    /\ word = << >>
    /\ current_guess = << >>
    /\ guesses = { }
    /\ remaining_letters = { }
    /\ puzzle = << >>
    /\ image_idx = 0
    /\ out = NoMessage
    /\ verdict = ""
    /\ player_wins = "none"
    /\ exit_code = Running
    /\ welcomed = FALSE

APIInitialiseGame ==
    /\ InAPI
    /\ \E w \in APIWords : initialise_game(w)
    /\ pc' = "api_initialise_game"
    /\ UNCHANGED << player_name, current_guess, guesses, image_idx,
                    out, verdict, player_wins, exit_code, welcomed >>

APIUpdateGameState ==
    /\ InAPI
    /\ image_idx < MaxIdx
    /\ \E g \in APIGuesses : update_game_state(g)
    /\ pc' = "api_update_game_state"
    /\ UNCHANGED << player_name, out, verdict, player_wins, exit_code, welcomed >>

APIResetCurrentGame ==
    /\ InAPI
    /\ reset_current_game
    /\ pc' = "api_reset_current_game"
    /\ UNCHANGED << player_name, out, verdict, player_wins, exit_code, welcomed >>

NextAPI ==
    \/ APIInitialiseGame
    \/ APIUpdateGameState
    \/ APIResetCurrentGame

SpecAPI == InitAPI /\ [][NextAPI]_vars

-----------------------------------------------------------------------------
(* Properties *)

\* a round is under way: initialise_game has run and reset_current_game has not
InRound == pc \in { "play_game", "get_guess", "get_guess_continue",
                    "display_game_result", "reset_current_game" }

\* play_game has returned
RoundOver == pc \in { "display_game_result", "reset_current_game" }

letters == SetOfStr(word)

AllRevealed == \A i \in DOMAIN puzzle : puzzle[i].guessed

NoneRevealed == \A i \in DOMAIN puzzle : ~ puzzle[i].guessed

\* C1: during a round, remaining_letters is the set of distinct letters of
\* word minus the letters in guesses.
C1_RemainingLetters ==
    InRound => remaining_letters = letters \ guesses

C1_Witness ==
    /\ pc = "get_guess"
    /\ guesses \cap letters # { }
    /\ guesses \ letters # { }
    /\ remaining_letters # { }

\* C2: during a round, puzzle is aligned with word position by position, and
\* a position is marked guessed exactly when its character is in guesses, so
\* every occurrence of a guessed letter is revealed by the one update.
C2_PuzzleAligned ==
    InRound =>
        /\ Len(puzzle) = Len(word)
        /\ \A i \in DOMAIN puzzle :
             /\ puzzle[i].character = word[i]
             /\ puzzle[i].guessed <=> (<< puzzle[i].character >> \in guesses)

C2_Witness ==
    /\ pc = "get_guess"
    /\ Cardinality(guesses) = 1
    /\ \E i, j \in DOMAIN puzzle :
         /\ i # j
         /\ word[i] = word[j]
         /\ puzzle[i].guessed
         /\ puzzle[j].guessed
    /\ \E k \in DOMAIN puzzle : ~ puzzle[k].guessed

\* C3: in every state of a session, 0 <= image_idx <= maxStages, so
\* image_idx always indexes the drawing sequence.
C3_ImageIdxInRange ==
    /\ image_idx \in 0 .. maxStages
    /\ pc # "crashed" \/ exit_code = 130

C3_Witness ==
    /\ pc = "display_game_result"
    /\ image_idx = maxStages

\* C4: during a round of a non-empty word, remaining_letters is never empty
\* while image_idx is maxStages; a finished round is won or lost, never both.
C4_WinLossExclusive ==
    (InRound /\ word # << >>) =>
        /\ ~ (remaining_letters = { } /\ image_idx = maxStages)
        /\ RoundOver =>
             /\ player_wins \in { "true", "false" }
             /\ player_wins = "true" <=> remaining_letters = { }
             /\ player_wins = "false" <=> image_idx = maxStages

C4_Witness ==
    /\ pc = "display_game_result"
    /\ remaining_letters = { }
    /\ image_idx = maxStages - 1

\* C5: when the guesses of a round are letters of the word only, no wrong
\* guess is counted, and once they cover every distinct letter the round has
\* ended won with every position revealed; it does not end before that.
C5_AllCorrectWins ==
    (InRound /\ word # << >> /\ guesses \subseteq letters) =>
        /\ image_idx = 0
        /\ (guesses = letters) <=> RoundOver
        /\ RoundOver => (player_wins = "true" /\ AllRevealed)

C5_Witness ==
    /\ pc = "display_game_result"
    /\ guesses = letters
    /\ Cardinality(letters) < Len(word)
    /\ player_wins = "true"

\* C6: when the guesses of a round are characters outside the word only, the
\* round goes on while there are fewer than maxStages of them and has ended
\* lost when there are maxStages, with image_idx = maxStages, all the
\* letters remaining and no position revealed.
C6_AllWrongLoses ==
    (InRound /\ word # << >> /\ guesses \cap letters = { }) =>
        /\ image_idx = Cardinality(guesses)
        /\ remaining_letters = letters
        /\ NoneRevealed
        /\ (Cardinality(guesses) = maxStages) <=> RoundOver
        /\ RoundOver => (player_wins = "false" /\ image_idx = maxStages)

C6_Witness ==
    /\ pc = "display_game_result"
    /\ guesses \cap letters = { }
    /\ Cardinality(guesses) = maxStages
    /\ player_wins = "false"

\* C7: a line rejected at the guess prompt leaves the game state and the
\* name unchanged, and the round goes back to the same prompt (or the player
\* quits); a step at the prompt that changes the game state applies a
\* one-character guess that was not in guesses.
C7_RejectedInputNoChange ==
    [][ /\ pc = "get_guess" =>
             /\ out'.kind \in { "one letter only", "already guessed" } =>
                  (UNCHANGED << gameVars, player_name >> /\ pc' = "get_guess_continue")
             /\ gameVars' # gameVars =>
                  (Len(current_guess') = 1 /\ current_guess' \notin guesses)
        /\ pc = "get_guess_continue" =>
             /\ UNCHANGED << gameVars, player_name >>
             /\ pc' \in { "get_guess", "exited" }
      ]_vars

C7_Witness ==
    /\ pc = "get_guess_continue"
    /\ out.kind = "already guessed"
    /\ image_idx > 0
    /\ remaining_letters # letters

\* C8: initialise_game, called in any state, leaves remaining_letters equal
\* to the distinct letters of word, every puzzle position unrevealed,
\* image_idx = 0 and guesses empty.
C8_InitialiseDiscardsPriorRound ==
    pc = "api_initialise_game" =>
        /\ remaining_letters = letters
        /\ Len(puzzle) = Len(word)
        /\ NoneRevealed
        /\ image_idx = 0
        /\ guesses = { }

\* C9: reset_current_game, called in any state, empties word, current_guess,
\* guesses, remaining_letters and puzzle, zeroes image_idx and leaves
\* player_name as it was.
C9_ResetClearsRound ==
    [][ pc' = "api_reset_current_game" =>
          /\ word' = << >>
          /\ current_guess' = << >>
          /\ guesses' = { }
          /\ remaining_letters' = { }
          /\ puzzle' = << >>
          /\ image_idx' = 0
          /\ player_name' = player_name
      ]_vars

C9_Witness ==
    /\ pc = "api_reset_current_game"
    /\ player_name # << >>
    /\ word = << >>
    /\ image_idx = 0

\* C10: once the name prompt has run, it never runs again in the process
\* and player_name never changes.
C10_NamePromptedOnce ==
    [][ welcomed => (pc' # "do_welcome" /\ player_name' = player_name) ]_vars

\* C11: no run of the process ends with a KeyboardInterrupt that nothing
\* caught: wherever the player interrupts, the process ends through do_quit,
\* with the exit dialog and exit status 0.
C11_InterruptRecovered ==
    ~ (pc = "crashed" /\ exit_code = 130)

BetweenRounds == pc \in { "prompt_confirm", "new_game", "do_welcome",
                          "print_intro", "get_secret_word" }

\* C13: every round of the session, the first and each later one, begins
\* after initialise_game with guesses empty, image_idx = 0, every puzzle
\* position unrevealed and remaining_letters = distinct(word): nothing of an
\* earlier round is left when a round is entered.
C13_EveryRoundStartsFresh ==
    /\ pc = "play_game" =>
         /\ word # << >>
         /\ guesses = { }
         /\ image_idx = 0
         /\ Len(puzzle) = Len(word)
         /\ NoneRevealed
         /\ remaining_letters = letters
    /\ BetweenRounds => (guesses = { } /\ image_idx = 0)

\* a later round has been entered: the player has answered yes to
\* "Play again?" and new_game is about to pick the next word
C13_Witness ==
    /\ pc = "print_intro"
    /\ out.kind = "play again"
    /\ welcomed
    /\ guesses = { }
    /\ image_idx = 0

AwaitingGuess == pc \in { "get_guess", "get_guess_continue" }

\* C14: after every accepted guess the round ends lost if image_idx is
\* maxStages, otherwise ends won if remaining_letters is empty, otherwise
\* asks for the next guess; so a guess is asked for only while letters remain
\* and image_idx < maxStages, and the game state no longer changes once the
\* round is over, until reset_current_game.
C14_OutcomeOrder ==
    /\ [](AwaitingGuess => (remaining_letters # { } /\ image_idx < maxStages))
    /\ [][ /\ (pc = "get_guess" /\ gameVars' # gameVars) =>
                IF image_idx' = maxStages
                THEN pc' = "display_game_result" /\ player_wins' = "false"
                ELSE IF remaining_letters' = { }
                THEN pc' = "display_game_result" /\ player_wins' = "true"
                ELSE pc' = "get_guess" /\ player_wins' = "none"
           /\ (RoundOver /\ gameVars' # gameVars) =>
                (pc = "reset_current_game" /\ pc' = "prompt_confirm")
         ]_vars

C14_Witness ==
    /\ pc = "get_guess"
    /\ image_idx = maxStages - 1
    /\ Cardinality(remaining_letters) = 1
    /\ verdict = "is wrong"

\* a step of the round loop that applies a guess
GuessApplied == pc = "get_guess" /\ gameVars' # gameVars

\* C15: an accepted guess changes one side of the state only.  A letter of
\* remaining_letters is removed from it and its positions are revealed, with
\* image_idx and every other position as before; a letter not in the word
\* adds exactly 1 to image_idx, with remaining_letters and puzzle as before.
\* Either way the letter joins guesses and word and player_name stay.
C15_GuessFrame ==
    [][ GuessApplied =>
          /\ guesses' = guesses \cup { current_guess' }
          /\ word' = word
          /\ player_name' = player_name
          /\ current_guess' \in remaining_letters \/ current_guess' \notin letters
          /\ current_guess' \in remaining_letters =>
               /\ remaining_letters' = remaining_letters \ { current_guess' }
               /\ image_idx' = image_idx
               /\ Len(puzzle') = Len(puzzle)
               /\ \A i \in DOMAIN puzzle :
                    /\ puzzle'[i].character = puzzle[i].character
                    /\ puzzle'[i].guessed =
                         IF << puzzle[i].character >> = current_guess'
                         THEN TRUE ELSE puzzle[i].guessed
          /\ current_guess' \notin letters =>
               /\ image_idx' = image_idx + 1
               /\ remaining_letters' = remaining_letters
               /\ puzzle' = puzzle
      ]_vars

C15_Witness ==
    /\ pc = "get_guess"
    /\ verdict = "is correct"
    /\ image_idx > 0
    /\ Cardinality(guesses \cap letters) > 1
    /\ \E i, j \in DOMAIN puzzle : puzzle[i].guessed /\ ~ puzzle[j].guessed

\* C16: update_game_state, applied in any state with a letter that is not
\* in remaining_letters, never leaves image_idx above maxStages.
C16_IncrementSaturates ==
    [][ (pc' = "api_update_game_state" /\ current_guess' \notin remaining_letters)
          => image_idx' <= maxStages ]_vars

\* C17: for every guess applied in the round loop the verdict printed agrees
\* with the state change: "is correct" exactly when the letter is in the
\* word, which is exactly when the guess removed it from remaining_letters
\* and left image_idx alone; "is wrong" exactly when image_idx went up by 1.
C17_VerdictMatchesUpdate ==
    [][ GuessApplied =>
          /\ verdict' \in { "is correct", "is wrong" }
          /\ (verdict' = "is correct") <=> (current_guess' \in letters)
          /\ (verdict' = "is correct") <=>
               /\ current_guess' \in remaining_letters
               /\ remaining_letters' = remaining_letters \ { current_guess' }
               /\ image_idx' = image_idx
          /\ (verdict' = "is wrong") <=> (image_idx' = image_idx + 1)
      ]_vars

C17_Witness ==
    /\ pc = "get_guess"
    /\ verdict = "is wrong"
    /\ image_idx = 1
    /\ current_guess \notin letters
    /\ guesses \cap letters # { }

ResultKinds == { "you win", "you loose" }

\* C18: at the end of a round the result is displayed before the state is
\* reset.  The report carries the win/loss flag and the non-empty word of
\* the round just played and leaves the game state as it is; word is
\* cleared only by the reset that follows the report; player_name is the
\* same before and after the end-of-round steps.
C18_ReportBeforeReset ==
    /\ [](pc = "reset_current_game" =>
            /\ out.kind \in ResultKinds
            /\ out.text = word
            /\ word # << >>
            /\ (out.kind = "you win") <=> (player_wins = "true")
            /\ (player_wins = "true") <=> (remaining_letters = { }))
    /\ [][ /\ RoundOver => player_name' = player_name
           /\ (pc = "display_game_result" /\ pc' = "reset_current_game") =>
                UNCHANGED gameVars
           /\ (word # << >> /\ word' = << >>) =>
                /\ pc = "reset_current_game"
                /\ pc' = "prompt_confirm"
                /\ out'.kind \in ResultKinds
                /\ out'.text = word
         ]_vars

C18_Witness ==
    /\ pc = "prompt_confirm"
    /\ out.kind = "you loose"
    /\ Len(out.text) > 0
    /\ word = << >>
    /\ player_name # << >>

\* C19: during a round image_idx is the number of guesses that are not
\* letters of word, and the number of letters removed from
\* remaining_letters is the number of guesses that are letters of word.
C19_CountersMatchGuesses ==
    InRound =>
        /\ image_idx = Cardinality(guesses \ letters)
        /\ Cardinality(letters \ remaining_letters) = Cardinality(guesses \cap letters)

C19_Witness ==
    /\ pc = "get_guess_continue"
    /\ out.kind = "already guessed"
    /\ image_idx = 2
    /\ Cardinality(guesses \cap letters) = 2

\* the round has ended, or the player has left it with an interrupt
RoundEnded == RoundOver \/ pc = "exited"

\* C20: a round of a non-empty word terminates.  No round takes more than
\* |distinct(word)| + maxStages - 1 accepted guesses; at every guess prompt
\* some input is acceptable; a rejected line leaves the round at the prompt;
\* and, with a player who eventually types an acceptable guess, a round that
\* has started ends won or lost (unless the player leaves with an interrupt).
C20_RoundTerminates ==
    /\ [](InRound => Cardinality(guesses) <= Cardinality(letters) + maxStages - 1)
    /\ [](pc = "get_guess" =>
            \E raw \in GuessInputs : get_guess_check(Normalised[raw], guesses) = "return")
    /\ [][ (AwaitingGuess /\ gameVars' = gameVars) =>
             (pc' \in { "get_guess", "get_guess_continue", "exited" }) ]_vars
    /\ (pc = "play_game") ~> RoundEnded

C20_Witness ==
    /\ RoundOver
    /\ Cardinality(guesses) = Cardinality(letters) + maxStages - 1
    /\ player_wins = "true"

====
